---- MODULE Spec2Model ----
(***************************************************************************)
(* Model of SnowflakeOparations/column_detector.py: the class              *)
(* SnowflakeColumnDetector (connect, disconnect, get_tables,               *)
(* get_columns_info, get_sample_values, analyze_schema, export_to_csv,     *)
(* export_to_excel) and the function main.                                 *)
(*                                                                         *)
(* The warehouse is the external collaborator: it is modelled by a         *)
(* catalog (objects, their columns by ordinal position, and the distinct   *)
(* non-null values of every column) and by a fault choice at every         *)
(* request (the driver raising an exception).                              *)
(*                                                                         *)
(* Two clients drive the detector.  "main" is the function main: its       *)
(* try / except / finally block, calling analyze_schema with sample_size=5 *)
(* and no table list (line 277).  "api" is any other caller of the public  *)
(* methods, calling them in any order with arguments drawn from small      *)
(* sets.                                                                   *)
(***************************************************************************)
EXTENDS Integers, Sequences, FiniteSets, TLC

(* ----------------------------- bounds ---------------------------------- *)
MaxSampleSize == 2      \* sample sizes 0..MaxSampleSize, and the default
MaxFilterLen  == 2      \* longest specific_tables list
MaxSessions   == 2      \* connect() calls that succeed, per detector
MaxCalls      == 3      \* method calls made by the "api" client
MaxAnalyses   == 1      \* analyze_schema calls among them

DefaultSampleSize == 5  \* sample_size: int = 5 ; main passes sample_size=5

(* ----------------------------- warehouse ------------------------------- *)
\* Sample values are numbers or strings; Num/Txt tag them.
Num(n) == [num |-> n]
Txt(s) == [str |-> s]

Col(n, t, nl, d) == [name |-> n, type |-> t, nullable |-> nl, data |-> d]

\* Lexicographic rank of the object names used (ORDER BY TABLE_NAME).
NameOrder == <<"GHOST", "ORDERS", "USERS", "V_ACTIVE">>

FilterNames == {"GHOST", "USERS"}

UsersCols  == << Col("ID", "NUMBER", "NO", <<Num(1), Num(2), Num(3)>>),
                 Col("EMAIL", "VARCHAR", "YES", <<Txt("a@x.com")>>) >>
OrdersCols == << Col("TOTAL", "NUMBER", "YES", <<>>) >>
ViewCols   == << Col("ID", "NUMBER", "NO", <<Num(1)>>) >>

\* A catalog: the objects of the schema (name, TABLE_TYPE) and the columns
\* of each object in ORDINAL_POSITION order.
EmptyCatalog == [objects |-> {}, cols |-> [n \in {} |-> <<>>]]
UsersCatalog == [objects |-> {[name |-> "USERS", type |-> "BASE TABLE"]},
                 cols |-> [n \in {"USERS"} |-> UsersCols]]
ShopCatalog  == [objects |-> {[name |-> "USERS", type |-> "BASE TABLE"],
                              [name |-> "ORDERS", type |-> "BASE TABLE"],
                              [name |-> "V_ACTIVE", type |-> "VIEW"]},
                 cols |-> [n \in {"USERS", "ORDERS", "V_ACTIVE"} |->
                             IF n = "USERS" THEN UsersCols
                             ELSE IF n = "ORDERS" THEN OrdersCols
                             ELSE ViewCols]]
Catalogs == {EmptyCatalog, UsersCatalog, ShopCatalog}

\* str(e) of the exception a failing request raises; it may be empty.
ErrMsgs == {"", "denied"}

SampleSizes == (0 .. MaxSampleSize) \cup {DefaultSampleSize}

\* specific_tables: None, or a list of names (possibly empty).
NoFilter == [given |-> FALSE, names |-> <<>>]
SeqsUpTo(S, n) == UNION {[1 .. k -> S] : k \in 0 .. n}
Filters == {NoFilter} \cup
           {[given |-> TRUE, names |-> s] : s \in SeqsUpTo(FilterNames, MaxFilterLen)}

(* ----------------------------- helpers --------------------------------- *)
Rank(name) == CHOOSE i \in 1 .. Len(NameOrder) : NameOrder[i] = name

\* The elements of the set of names S as a sequence in ascending order.
RECURSIVE SortNames(_)
SortNames(S) ==
    IF S = {} THEN <<>>
    ELSE LET m == CHOOSE x \in S : \A y \in S : Rank(x) <= Rank(y)
         IN  <<m>> \o SortNames(S \ {m})

\* Python's seq[:n] for n >= 0.
Take(s, n) == SubSeq(s, 1, IF n < Len(s) THEN n ELSE Len(s))

Digits == <<"0", "1", "2", "3", "4", "5", "6", "7", "8", "9">>

\* str(s) of a sample value.
Str(v) == IF "num" \in DOMAIN v THEN Digits[v.num + 1] ELSE v.str

\* ', '.join(strs)
RECURSIVE Join(_)
Join(strs) ==
    IF Len(strs) = 0 THEN ""
    ELSE IF Len(strs) = 1 THEN strs[1]
    ELSE strs[1] \o ", " \o Join(Tail(strs))

\* Truth value of the argument in "if specific_tables:".
TruthyIsNotNone(f) == f.given
Truthy(f) == f.given /\ Len(f.names) > 0

(* ----------------------------- warehouse requests ---------------------- *)
\* Rows of the table-list query: base tables of the schema, by name.
GetTables(cat) ==
    SortNames({o.name : o \in {x \in cat.objects : x.type = "BASE TABLE"}})

\* Rows of the column-metadata query, as the DataFrame get_columns_info
\* builds from them.  The query filters INFORMATION_SCHEMA.COLUMNS by
\* TABLE_NAME, so a name the catalog does not know selects no row.
GetColumnsInfo(cat, table_name) ==
    IF table_name \in DOMAIN cat.cols
    THEN [i \in 1 .. Len(cat.cols[table_name]) |->
            [COLUMN_NAME |-> cat.cols[table_name][i].name,
             DATA_TYPE   |-> cat.cols[table_name][i].type,
             IS_NULLABLE |-> cat.cols[table_name][i].nullable]]
    ELSE <<>>

\* Whether a catalog request raises: the driver fails (fault) or the
\* session it is issued on is closed.
QueryRaises(cat, table_name, fault, live) == fault \/ ~live

\* Rows of SELECT DISTINCT "column" ... IS NOT NULL LIMIT sample_size.
SampleRows(cat, table_name, column_name, sample_size) ==
    LET cs == cat.cols[table_name]
        i  == CHOOSE k \in 1 .. Len(cs) : cs[k].name = column_name
    IN  Take(cs[i].data, sample_size)

\* get_sample_values: the rows, or the rendered error when the request raises.
GetSampleValuesSwallow(cat, table_name, column_name, sample_size, raises, msg) ==
    IF raises
    THEN <<>>
    ELSE SampleRows(cat, table_name, column_name, sample_size)
GetSampleValues(cat, table_name, column_name, sample_size, raises, msg) ==
    IF raises
    THEN << Txt("エラー: " \o msg) >>
    ELSE SampleRows(cat, table_name, column_name, sample_size)

\* sample_str = ', '.join([str(s) for s in samples[:sample_size]])
SampleStrNoSlice(samples, n) ==
    Join([i \in 1 .. Len(samples) |-> Str(samples[i])])
SampleStr(samples, n) ==
    Join([i \in 1 .. Len(Take(samples, n)) |-> Str(Take(samples, n)[i])])

\* results.append({...})
PrependRow(rs, table, col_info, sample_str) ==
    << [table |-> table, column |-> col_info.COLUMN_NAME, type |-> col_info.DATA_TYPE,
        nullable |-> col_info.IS_NULLABLE, sample |-> sample_str] >> \o rs
AppendRow(rs, table, col_info, sample_str) ==
    Append(rs, [table |-> table, column |-> col_info.COLUMN_NAME,
                type |-> col_info.DATA_TYPE, nullable |-> col_info.IS_NULLABLE,
                sample |-> sample_str])

(* ----------------------------- state ----------------------------------- *)
VARIABLES
    client,          \* "main" or "api"
    catalog,         \* the schema in the warehouse
    pc,              \* position of the client
    apc,             \* position inside analyze_schema, or how the last call ended
    connection,      \* self.connection: 0 is None, else a session id
    sessions,        \* sessions ever opened: [open, closes], closes counts close()
    sample_size,     \* arguments of the current / last analyze_schema call
    specific_tables,
    tables,          \* locals of analyze_schema
    ti,
    columns_info,
    ci,
    results,
    report,          \* the variable results of main: [valid, rows]
    error,           \* which step raised: "" when none
    file,            \* the CSV output file: [written, rows]
    sheet,           \* the Excel output file: [written, rows]
    queries,         \* requests issued by the current / last analyze_schema call
    calls,           \* method calls made so far by the "api" client
    analyses         \* analyze_schema calls among them

vars == << client, catalog, pc, apc, connection, sessions, sample_size,
           specific_tables, tables, ti, columns_info, ci, results, report,
           error, file, sheet, queries, calls, analyses >>

detector == << connection, sessions >>
locals   == << tables, ti, columns_info, ci, results >>
args     == << sample_size, specific_tables >>

Live == connection # 0 /\ sessions[connection].open

Query(kind, table, column, fault, ok, rows) ==
    [kind |-> kind, table |-> table, column |-> column, fault |-> fault,
     live |-> Live, ok |-> ok, rows |-> rows]

Start(c) ==
    /\ client = c
    /\ catalog \in Catalogs
    /\ pc = IF client = "main" THEN "m_connect" ELSE "idle"
    /\ apc = "idle"
    /\ connection = 0
    /\ sessions = <<>>
    /\ sample_size = DefaultSampleSize
    /\ specific_tables = NoFilter
    /\ tables = <<>>
    /\ ti = 1
    /\ columns_info = <<>>
    /\ ci = 1
    /\ results = <<>>
    /\ report = [valid |-> FALSE, rows |-> <<>>]
    /\ error = ""
    /\ file = [written |-> FALSE, rows |-> <<>>]
    /\ sheet = [written |-> FALSE, rows |-> <<>>]
    /\ queries = <<>>
    /\ calls = 0
    /\ analyses = 0

(* ----------------------------- Connector ------------------------------- *)
\* connect(): the session opened by snowflake.connector.connect.
Opened(ss) == Append(ss, [open |-> TRUE, closes |-> 0])

\* disconnect(): close() on self.connection when it is set.
Closed(conn, ss) ==
    IF conn # 0
    THEN [ss EXCEPT ![conn] = [open |-> FALSE, closes |-> @.closes + 1]]
    ELSE ss


\* Where an exception raised inside the client's call lands: the except
\* block of main, or back at the "api" caller.
OnRaiseSkipFinally == IF client = "main" THEN "done" ELSE "idle"
OnRaise == IF client = "main" THEN "m_except" ELSE "idle"

(* ----------------------------- analyze_schema -------------------------- *)
Running == apc \in {"entry", "tables", "columns", "sample"}

\* The call: arguments bound, nothing executed yet.
Enter(n, f) ==
    /\ apc' = "entry"
    /\ sample_size' = n
    /\ specific_tables' = f
    /\ tables' = <<>>
    /\ ti' = 1
    /\ columns_info' = <<>>
    /\ ci' = 1
    /\ results' = <<>>
    /\ queries' = <<>>
    /\ error' = ""

\* if not self.connection: self.connect()
AnalyzeEntry ==
    /\ apc = "entry"
    /\ IF connection # 0
       THEN /\ apc' = "tables"
            /\ UNCHANGED << detector, error, pc >>
       ELSE \E ok \in BOOLEAN :
              IF ok
              THEN /\ sessions' = Opened(sessions)
                   /\ connection' = Len(sessions')
                   /\ apc' = "tables"
                   /\ UNCHANGED << error, pc >>
              ELSE /\ apc' = "raised"
                   /\ error' = "connect"
                   /\ pc' = OnRaise
                   /\ UNCHANGED detector
    /\ UNCHANGED << client, catalog, args, locals, report, file, sheet, queries, calls, analyses >>

\* if specific_tables: tables = specific_tables  else: tables = self.get_tables()
AnalyzeTables ==
    /\ apc = "tables"
    /\ IF Truthy(specific_tables)
       THEN /\ tables' = specific_tables.names
            /\ apc' = "columns"
            /\ UNCHANGED << queries, error, pc >>
       ELSE \E fault \in BOOLEAN :
              IF QueryRaises(catalog, "", fault, Live)
              THEN /\ queries' = Append(queries, Query("tables", "", "", fault, FALSE, <<>>))
                   /\ apc' = "raised"
                   /\ error' = "tables"
                   /\ pc' = OnRaise
                   /\ UNCHANGED tables
              ELSE /\ queries' = Append(queries,
                                   Query("tables", "", "", fault, TRUE, GetTables(catalog)))
                   /\ tables' = GetTables(catalog)
                   /\ apc' = "columns"
                   /\ UNCHANGED << error, pc >>
    /\ UNCHANGED << client, catalog, detector, args, ti, columns_info, ci, results,
                    report, file, sheet, calls, analyses >>

\* for table in tables: columns_info = self.get_columns_info(table)
AnalyzeColumns ==
    /\ apc = "columns"
    /\ ti <= Len(tables)
    /\ \E fault \in BOOLEAN :
         IF QueryRaises(catalog, tables[ti], fault, Live)
         THEN /\ queries' = Append(queries,
                              Query("columns", tables[ti], "", fault, FALSE, <<>>))
              /\ apc' = "raised"
              /\ error' = "columns"
              /\ pc' = OnRaise
              /\ UNCHANGED << columns_info, ci >>
         ELSE /\ queries' = Append(queries,
                              Query("columns", tables[ti], "", fault, TRUE,
                                    GetColumnsInfo(catalog, tables[ti])))
              /\ columns_info' = GetColumnsInfo(catalog, tables[ti])
              /\ ci' = 1
              /\ apc' = "sample"
              /\ UNCHANGED << error, pc >>
    /\ UNCHANGED << client, catalog, detector, args, tables, ti, results, report,
                    file, sheet, calls, analyses >>

\* for _, col_info in columns_info.iterrows(): one sample request, one row.
AnalyzeSample ==
    /\ apc = "sample"
    /\ ci <= Len(columns_info)
    /\ \E fault \in BOOLEAN, msg \in ErrMsgs :
         LET table   == tables[ti]
             col     == columns_info[ci]
             raises  == QueryRaises(catalog, table, fault, Live)
             samples == GetSampleValues(catalog, table, col.COLUMN_NAME,
                                        sample_size, raises, msg)
         IN  /\ (~raises => msg = "")
             /\ queries' = Append(queries,
                             Query("sample", table, col.COLUMN_NAME, fault, ~raises,
                                   samples))
             /\ results' = AppendRow(results, table, col,
                                     SampleStr(samples, sample_size))
             /\ ci' = ci + 1
    /\ UNCHANGED << client, catalog, pc, apc, detector, args, tables, ti,
                    columns_info, report, error, file, sheet, calls, analyses >>

\* The inner loop is exhausted: on to the next table.
AnalyzeNextTable ==
    /\ apc = "sample"
    /\ ci > Len(columns_info)
    /\ ti' = ti + 1
    /\ apc' = "columns"
    /\ UNCHANGED << client, catalog, pc, detector, args, tables, columns_info, ci,
                    results, report, error, file, sheet, queries, calls, analyses >>

\* The outer loop is exhausted: return pd.DataFrame(results).
AnalyzeReturn ==
    /\ apc = "columns"
    /\ ti > Len(tables)
    /\ apc' = "returned"
    /\ report' = IF client = "main" THEN [valid |-> TRUE, rows |-> results] ELSE report
    /\ pc' = IF client = "main" THEN "m_print" ELSE "idle"
    /\ UNCHANGED << client, catalog, detector, args, locals, error, file, sheet, queries,
                    calls, analyses >>

(* ----------------------------- main ------------------------------------ *)
\* detector.connect() inside try
MainConnect ==
    /\ client = "main" /\ pc = "m_connect"
    /\ \E ok \in BOOLEAN :
         IF ok
         THEN /\ sessions' = Opened(sessions)
              /\ connection' = Len(sessions')
              /\ pc' = "m_analyze"
              /\ UNCHANGED error
         ELSE /\ error' = "connect"
              /\ pc' = OnRaise
              /\ UNCHANGED detector
    /\ UNCHANGED << client, catalog, apc, args, locals, report, file, sheet, queries, calls, analyses >>

\* results = detector.analyze_schema(sample_size=5)
MainAnalyze ==
    /\ client = "main" /\ pc = "m_analyze"
    /\ Enter(DefaultSampleSize, NoFilter)
    /\ pc' = "m_in_analyze"
    /\ UNCHANGED << client, catalog, detector, report, file, sheet, calls, analyses >>

\* print(results.to_string())
MainPrint ==
    /\ client = "main" /\ pc = "m_print"
    /\ \E ok \in BOOLEAN :
         IF ok THEN pc' = "m_export" /\ UNCHANGED error
               ELSE pc' = OnRaise /\ error' = "print"
    /\ UNCHANGED << client, catalog, apc, detector, args, locals, report, file, sheet,
                    queries, calls, analyses >>

\* df.to_csv(output_file, ...) / df.to_excel(output_file, ...): the
\* destination is overwritten with the rows of df.
Written(df) == [written |-> TRUE, rows |-> df.rows]

\* What an export that raises may leave behind: the file as it was (it
\* could not be opened), a file cut short (the write failed part-way), or
\* the whole file (the write succeeded and the print after it raised).
LeftBehind(df, old) ==
    {old} \cup {[written |-> TRUE, rows |-> SubSeq(df.rows, 1, k)] :
                   k \in 0 .. Len(df.rows)}

\* detector.export_to_csv(results, 'snowflake_schema_analysis.csv')
MainExport ==
    /\ client = "main" /\ pc = "m_export"
    /\ \E ok \in BOOLEAN :
         IF ok THEN pc' = "m_finally" /\ file' = Written(report) /\ UNCHANGED error
               ELSE pc' = OnRaise /\ error' = "export" /\ file' \in LeftBehind(report, file)
    /\ UNCHANGED << client, catalog, apc, detector, args, locals, report, sheet, queries,
                    calls, analyses >>

\* except Exception as e: print(...)
MainExceptExports ==
    /\ client = "main" /\ pc = "m_except"
    /\ pc' = "m_finally"
    /\ file' = [written |-> TRUE, rows |-> results]
    /\ UNCHANGED << client, catalog, apc, detector, args, locals, report, error, sheet,
                    queries, calls, analyses >>
MainExcept ==
    /\ client = "main" /\ pc = "m_except"
    /\ pc' = "m_finally"
    /\ UNCHANGED << client, catalog, apc, detector, args, locals, report, error,
                    file, sheet, queries, calls, analyses >>

\* finally: detector.disconnect()
MainFinally ==
    /\ client = "main" /\ pc = "m_finally"
    /\ sessions' = Closed(connection, sessions)
    /\ pc' = "done"
    /\ UNCHANGED << client, catalog, apc, connection, args, locals, report, error,
                    file, sheet, queries, calls, analyses >>

(* ----------------------------- any other caller ------------------------ *)
ApiReady == client = "api" /\ pc = "idle" /\ ~Running /\ calls < MaxCalls

ApiConnect ==
    /\ ApiReady
    /\ \E ok \in BOOLEAN :
         IF ok
         THEN /\ Len(sessions) < MaxSessions
              /\ sessions' = Opened(sessions)
              /\ connection' = Len(sessions')
              /\ error' = ""
         ELSE /\ error' = "connect"
              /\ UNCHANGED detector
    /\ calls' = calls + 1
    /\ UNCHANGED analyses
    /\ UNCHANGED << client, catalog, pc, apc, args, locals, report, file, sheet, queries >>

ApiDisconnect ==
    /\ ApiReady
    /\ sessions' = Closed(connection, sessions)
    /\ error' = ""
    /\ calls' = calls + 1
    /\ UNCHANGED analyses
    /\ UNCHANGED << client, catalog, pc, apc, connection, args, locals, report,
                    file, sheet, queries >>

ApiAnalyze ==
    /\ ApiReady
    /\ analyses < MaxAnalyses
    /\ \E n \in SampleSizes, f \in Filters : Enter(n, f)
    /\ calls' = calls + 1
    /\ analyses' = analyses + 1
    /\ UNCHANGED << client, catalog, pc, detector, report, file, sheet >>

Analyze ==
    \/ AnalyzeEntry
    \/ AnalyzeTables
    \/ AnalyzeColumns
    \/ AnalyzeSample
    \/ AnalyzeNextTable
    \/ AnalyzeReturn

\* The DataFrame a caller holds once analyze_schema has returned.
Returned == [valid |-> TRUE, rows |-> results]

\* export_to_csv(df, ...) with the DataFrame analyze_schema returned
ApiExportCsv ==
    /\ ApiReady
    /\ apc = "returned"
    /\ \E ok \in BOOLEAN :
         IF ok THEN file' = Written(Returned) /\ error' = ""
               ELSE file' \in LeftBehind(Returned, file) /\ error' = "export"
    /\ calls' = calls + 1
    /\ UNCHANGED analyses
    /\ UNCHANGED << client, catalog, pc, apc, detector, args, locals, report,
                    sheet, queries >>

\* export_to_excel(df, ...) with the DataFrame analyze_schema returned
ApiExportExcel ==
    /\ ApiReady
    /\ apc = "returned"
    /\ \E ok \in BOOLEAN :
         IF ok THEN sheet' = Written(Returned) /\ error' = ""
               ELSE sheet' \in LeftBehind(Returned, sheet) /\ error' = "export"
    /\ calls' = calls + 1
    /\ UNCHANGED analyses
    /\ UNCHANGED << client, catalog, pc, apc, detector, args, locals, report,
                    file, queries >>

\* One run of main.
MainInit == Start("main")
MainNext ==
    \/ Analyze
    \/ MainConnect
    \/ MainAnalyze
    \/ MainPrint
    \/ MainExport
    \/ MainExcept
    \/ MainFinally
MainSpec == MainInit /\ [][MainNext]_vars

\* Every request returns or raises (section 5: synchronous, no suspension
\* beyond the blocking request), so main always takes its next step.
FairMainSpec == MainSpec /\ WF_vars(MainNext)

\* A detector whose caller connects, disconnects and analyses, in any
\* order, and exports nothing.
DetectorInit == Start("api")
DetectorNext ==
    \/ Analyze
    \/ ApiConnect
    \/ ApiDisconnect
    \/ ApiAnalyze
DetectorSpec == DetectorInit /\ [][DetectorNext]_vars

\* A detector used through all its public methods.
ApiInit == Start("api")
ApiNext ==
    \/ Analyze
    \/ ApiConnect
    \/ ApiDisconnect
    \/ ApiAnalyze
    \/ ApiExportCsv
    \/ ApiExportExcel
ApiSpec == ApiInit /\ [][ApiNext]_vars

(* ----------------------------- properties ------------------------------ *)
OfKind(k) == SelectSeq(queries, LAMBDA q : q.kind = k)
ColumnQueries == OfKind("columns")
SampleQueries == OfKind("sample")

Known(t) == t \in DOMAIN catalog.cols

\* A report row without its sample field.
Strip(rs) ==
    [i \in 1 .. Len(rs) |->
        [table |-> rs[i].table, column |-> rs[i].column,
         type |-> rs[i].type, nullable |-> rs[i].nullable]]

\* The descriptors the metadata requests cqs returned, request after
\* request, each response in the order it was returned.
RECURSIVE ReturnedDescriptors(_)
ReturnedDescriptors(cqs) ==
    IF Len(cqs) = 0 THEN <<>>
    ELSE [i \in 1 .. Len(cqs[1].rows) |->
            [table |-> cqs[1].table, column |-> cqs[1].rows[i].COLUMN_NAME,
             type |-> cqs[1].rows[i].DATA_TYPE,
             nullable |-> cqs[1].rows[i].IS_NULLABLE]]
         \o ReturnedDescriptors(Tail(cqs))

\* C1: the report analyze_schema returns is the in-order concatenation, over
\* the tables in their given order, of the descriptors the column-metadata
\* request returned for each table, in the order returned: one row per
\* (table, column), none invented, none missing, none reordered.
C1_ReportIsConcatenation ==
    /\ apc = "returned" =>
         /\ Len(ColumnQueries) = Len(tables)
         /\ \A i \in 1 .. Len(tables) :
              ColumnQueries[i].table = tables[i] /\ ColumnQueries[i].ok
         /\ Strip(results) = ReturnedDescriptors(ColumnQueries)
    /\ \A k \in 1 .. Len(results) :
         \E q \in {ColumnQueries[i] : i \in 1 .. Len(ColumnQueries)} :
            /\ q.ok /\ q.table = results[k].table
            /\ \E j \in 1 .. Len(q.rows) : q.rows[j].COLUMN_NAME = results[k].column

\* C1 witness: two tables analysed, three rows, ID before EMAIL.
C1_Witness ==
    /\ apc = "returned"
    /\ tables = <<"ORDERS", "USERS">>
    /\ Len(results) = 3
    /\ results[2].column = "ID" /\ results[3].column = "EMAIL"

\* C2 (as claimed): every row whose sample request failed has a non-empty
\* error description in its sample field, for any sample size.
C2_FailedSampleRendered ==
    \A k \in 1 .. Len(results) :
        ~SampleQueries[k].ok => results[k].sample # ""

\* C2 (amended): for a sample size of at least 1, every row whose sample
\* request failed has the rendered error (never empty) as its sample field;
\* for any sample size the failure does not end the call (a call that raised
\* did so at connect or at a catalog request), every column still gets its
\* row, and a call that returned has one row per column returned.
C2_FailedSampleIsolated ==
    /\ Len(results) = Len(SampleQueries)
    /\ \A k \in 1 .. Len(results) :
         /\ results[k].table = SampleQueries[k].table
         /\ results[k].column = SampleQueries[k].column
         /\ (sample_size >= 1 /\ ~SampleQueries[k].ok) =>
               /\ results[k].sample # ""
               /\ results[k].sample \in {"エラー: " \o m : m \in ErrMsgs}
    /\ apc = "raised" =>
         (Len(queries) = 0 \/ queries[Len(queries)].kind # "sample")
    /\ apc = "returned" =>
         Len(results) = Len(ReturnedDescriptors(ColumnQueries))

\* C2 witness: the sample request of the first of three columns failed,
\* with an exception whose text is empty; the call returned three rows.
C2_Witness ==
    /\ apc = "returned"
    /\ sample_size >= 1
    /\ Len(results) = 3
    /\ ~SampleQueries[1].ok /\ SampleQueries[2].ok /\ SampleQueries[3].ok
    /\ results[1].sample = "エラー: "

\* C3: with sample_size = 0 every row of the report has "" as its sample
\* field, and the sampling step never ends the call with an exception (a
\* call that raised did so at connect or at a catalog request).
C3_ZeroSampleSizeEmpty ==
    sample_size = 0 =>
        /\ \A k \in 1 .. Len(results) : results[k].sample = ""
        /\ apc = "raised" =>
             (Len(queries) = 0 \/ queries[Len(queries)].kind # "sample")

\* C3 witness: a returned report with rows, built with sample_size = 0, one
\* of whose columns holds values.
C3_Witness ==
    /\ apc = "returned"
    /\ sample_size = 0
    /\ Len(results) >= 2
    /\ \E k \in 1 .. Len(results) : results[k].column = "ID"

\* C4: whenever specific_tables is given, of any length, the tables
\* analysed are exactly that list and no table-list request is issued.
C4_FilterVerbatim ==
    specific_tables.given =>
        /\ Len(OfKind("tables")) = 0
        /\ apc \in {"columns", "sample", "returned"} => tables = specific_tables.names

\* C5: a column-metadata request for a table the catalog does not know
\* fails, analyze_schema aborts with that error (it does not return), and
\* no output file is written.
C5_UnknownTableAborts ==
    \A i \in 1 .. Len(ColumnQueries) :
        ~Known(ColumnQueries[i].table) =>
            /\ ~ColumnQueries[i].ok
            /\ apc # "returned"
            /\ ~file.written /\ ~sheet.written

AllSessionsClosed == \A s \in 1 .. Len(sessions) : ~sessions[s].open

\* C6: every run of main terminates, whatever step fails, and when it has
\* ended every session that was opened is closed.
C6_MainEndsDisconnected ==
    /\ [](pc = "done" => AllSessionsClosed)
    /\ <>(pc = "done")

\* C6 witness: a run that failed after connecting has ended, its session closed.
C6_Witness ==
    /\ pc = "done"
    /\ error \in {"tables", "columns", "print", "export"}
    /\ Len(sessions) = 1
    /\ sessions[1].closes = 1

\* C7: in a run of main the output file is written only after
\* analyze_schema returned the complete report, and it holds that report; a
\* run a fatal error aborted before the export has no output file.
C7_ExportOnlyCompleteReport ==
    /\ file.written =>
         /\ apc = "returned"
         /\ report.valid
         /\ report.rows = results
         /\ file.rows = SubSeq(report.rows, 1, Len(file.rows))
         /\ error = "" => file.rows = report.rows
    /\ error \in {"connect", "tables", "columns", "print"} => ~file.written
    /\ ~sheet.written

\* C7 witness: the metadata request of the second table failed after rows
\* of the first were collected; the run ended without a file.
C7_Witness ==
    /\ pc = "done"
    /\ error = "columns"
    /\ Len(results) >= 1
    /\ ~file.written /\ ~sheet.written

\* C8: however many times disconnect() is called, a session is released
\* exactly once (close() reaches it once).
C8_ReleasedOnce ==
    \A s \in 1 .. Len(sessions) : sessions[s].closes <= 1

\* C9 (as claimed): a successful analyze_schema call issued exactly one
\* table-list request.
C9_OneTableListQuery ==
    apc = "returned" => Len(OfKind("tables")) = 1

Sig(q) == << q.kind, q.table, q.column >>

\* The requests of one table: its metadata request, then one sample
\* request per column the catalog holds for it, by position.
TableRequests(t) ==
    << <<"columns", t, "">> >> \o
    [i \in 1 .. Len(GetColumnsInfo(catalog, t)) |->
        <<"sample", t, GetColumnsInfo(catalog, t)[i].COLUMN_NAME>>]

RECURSIVE RequestsOf(_)
RequestsOf(ts) ==
    IF Len(ts) = 0 THEN <<>>
    ELSE TableRequests(ts[1]) \o RequestsOf(Tail(ts))

\* C9 (amended): a successful analyze_schema call issued, in this order,
\* one table-list request when specific_tables is None or empty and none
\* when it is a non-empty list, then for each analysed table in turn one
\* column-metadata request followed by one sample request per column
\* returned.
C9_RequestSequence ==
    apc = "returned" =>
        [i \in 1 .. Len(queries) |-> Sig(queries[i])] =
            (IF specific_tables.given /\ Len(specific_tables.names) > 0
             THEN <<>> ELSE << <<"tables", "", "">> >>)
            \o RequestsOf(tables)

\* C9 witness: a successful call with a table list: no table-list request.
C9_Witness ==
    /\ apc = "returned"
    /\ specific_tables = [given |-> TRUE, names |-> <<"USERS">>]
    /\ Len(queries) = 3

\* C10: no request is issued on a closed session: past its entry step
\* analyze_schema holds a live session.
C10_RequestsOnLiveSession ==
    /\ apc \in {"tables", "columns", "sample"} => Live
    /\ \A i \in 1 .. Len(queries) : queries[i].live

====
